---- MODULE Spec2Model ----
\* Model of the dynamic-DNS updater in src/main.go: main (lines 61-135),
\* getPublicIP (lines 138-174) and fetchIP (lines 177-200).
\* Strings that the program inspects (response bodies, addresses) are
\* sequences of one-character strings, so that strings.TrimSpace is computed.
\* The HTTP services and the DNS provider are outside the program: their
\* answers are nondeterministic inputs drawn from bounded sets.
EXTENDS Integers, Sequences, FiniteSets, TLC

\* ---------------------------------------------------------------- bounds
MaxBodyLen == 2
MaxRecords == 2

\* ------------------------------------------------------ program constants
\* services := []string{"https://checkip.amazonaws.com", "https://icanhazip.com"}
services == <<"https://checkip.amazonaws.com", "https://icanhazip.com">>
Tasks == 1..Len(services)

\* results := make(chan result, len(services))
ResultsCapOneLess == Len(services) - 1
ResultsCap == Len(services)

\* ---------------------------------------------------------- input domains
Whitespace == {" ", "\n"}
Digits == {"1"}
Chars == Whitespace \cup Digits

RECURSIVE SeqsUpTo(_, _)
SeqsUpTo(S, n) ==
    IF n = 0 THEN {<<>>}
    ELSE LET shorter == SeqsUpTo(S, n - 1)
         IN shorter \cup {Append(s, c) : s \in shorter, c \in S}

Bodies == SeqsUpTo(Chars, MaxBodyLen)
Statuses == {200, 500}

\* the A records the provider may hold for recordName
recordName == "home.example.com"
Contents == {<<"1">>, <<"1", "1">>}
TTLs == {1, 300}
\* a proxied record has the automatic TTL 1, an unproxied one its own TTL
DNSRecords ==
    {r \in [Type : {"A"}, Name : {recordName}, Content : Contents,
            TTL : TTLs, Proxied : BOOLEAN] : r.Proxied <=> r.TTL = 1}
RecordLists == SeqsUpTo(DNSRecords, MaxRecords)

\* ------------------------------------------------------------------ state
VARIABLES
    pc,        \* position of main
    ctxDone,   \* the deadline of ctx has passed
    spawned,   \* goroutines started by the first loop of getPublicIP
    received,  \* iterations done by the second loop of getPublicIP
    results,   \* the buffered channel
    ips,       \* var ips []string
    ip, err,   \* ip, err := getPublicIP(ctx) in main
    records,   \* records returned by ListDNSRecords
    calls,     \* provider operations called so far, in order
    updates,   \* the UpdateDNSRecordParams of each UpdateDNSRecord call
    log,       \* messages written so far, in order
    tpc,       \* position of each endpoint goroutine
    status,    \* resp.StatusCode seen by each goroutine (0: no response)
    body,      \* the bytes io.ReadAll gave each goroutine
    res,       \* the value fetchIP returned in each goroutine
    order,     \* endpoints in the order their results entered the channel
    requests   \* number of http.DefaultClient.Do calls per endpoint

vars == <<pc, ctxDone, spawned, received, results, ips, ip, err, records,
          calls, updates, log, tpc, status, body, res, order, requests>>

Terminal == {"ZONE_FAILED", "RESOLUTION_FAILED", "LIST_FAILED", "NO_RECORD",
             "UP_TO_DATE", "UPDATED", "UPDATE_FAILED"}

Running == pc \notin Terminal

\* ------------------------------------------------------------ pure helpers
RECURSIVE TrimLeft(_)
TrimLeft(s) ==
    IF s = <<>> THEN s
    ELSE IF Head(s) \in Whitespace THEN TrimLeft(Tail(s)) ELSE s

RECURSIVE TrimRight(_)
TrimRight(s) ==
    IF s = <<>> THEN s
    ELSE IF s[Len(s)] \in Whitespace
         THEN TrimRight(SubSeq(s, 1, Len(s) - 1)) ELSE s

\* strings.TrimSpace
TrimSpace(s) == TrimRight(TrimLeft(s))

\* error values: nil, and one value per place an error is made
nil == "nil"
ErrDo == "http.DefaultClient.Do"
ErrReadAll == "io.ReadAll"
ErrDeadline == "context deadline exceeded"
ErrEmpty == "received empty IP address"
ErrAllFailed == "failed to fetch public IP from all services"

\* the context the endpoint requests are made with is ctx (line 178): the
\* request and the reading of its response end with an error once ctx is done
RequestCtxBackground == FALSE
RequestCtxDone == ctxDone

\* the context ListDNSRecords and UpdateDNSRecord are called with is the same
\* ctx (lines 92 and 114): these calls return an error once ctx is done
ProviderCtxBackground == FALSE
ProviderCtxDone == ctxDone

\* return "", err
Failure(e) == [ip |-> <<>>, err |-> e]

\* fetchIP, from the body io.ReadAll returned (lines 194-199)
FetchResultKeepEmpty(b) == [ip |-> TrimSpace(b), err |-> nil]
FetchResult(b) ==
    IF TrimSpace(b) = <<>> THEN Failure(ErrEmpty)
    ELSE [ip |-> TrimSpace(b), err |-> nil]

\* if res.err == nil { ips = append(ips, res.ip) } (lines 160-162)
CollectAll(l, r) == Append(l, r.ip)
Collect(l, r) == IF r.err = nil THEN Append(l, r.ip) ELSE l

\* the second loop of getPublicIP runs once per service (line 158)
AllReceivedFirstWins == received >= 1
AllReceivedOneMore == received = Len(services) + 1
AllReceived == received = Len(services)

\* the warning condition of getPublicIP (line 169)
MismatchAnyPair(l) == Len(l) > 1
Mismatch(l) == Len(l) > 1 /\ l[1] # l[2]

\* the value getPublicIP returns (lines 165-173)
ResolveResultNoError(l) ==
    IF Len(l) = 0 THEN [ip |-> <<>>, err |-> nil]
    ELSE [ip |-> l[1], err |-> nil]
ResolveResultNeedsAll(l) ==
    IF Len(l) < Len(services) THEN Failure(ErrAllFailed)
    ELSE [ip |-> l[1], err |-> nil]
ResolveResult(l) ==
    IF Len(l) = 0 THEN Failure(ErrAllFailed)
    ELSE [ip |-> l[1], err |-> nil]

\* where main ends when no A record was listed: log.Fatalf (lines 126-128)
NoRecordExitQuiet == "UPDATED"
NoRecordExit == "NO_RECORD"

\* what main prints when the record is up to date, before it returns
\* (lines 101, 109-110)
UpToDateMessagesFallThrough ==
    <<"Total records found", "DNS record already up-to-date",
      "Successfully updated DNS record">>
UpToDateMessages ==
    <<"Total records found", "DNS record already up-to-date">>

\* record.Content == ip (line 108)
UpToDateNever(rec, addr) == FALSE
UpToDate(rec, addr) == rec.Content = addr

\* the parameters of the UpdateDNSRecord call (lines 113-120)
UpdateParamsAutoTTL(rec, addr) ==
    [Type |-> rec.Type, Name |-> rec.Name, Content |-> addr,
     TTL |-> 1, Proxied |-> rec.Proxied]
UpdateParams(rec, addr) ==
    [Type |-> rec.Type, Name |-> rec.Name, Content |-> addr,
     TTL |-> rec.TTL, Proxied |-> rec.Proxied]

\* ------------------------------------------------------------------- Init
\* init() has run: apiToken, zoneName and recordName are non-empty, so
\* cloudflare.NewWithAPIToken (line 63) succeeds and main is about to call
\* ZoneIDByName.
Init ==
    /\ pc = "START"
    /\ ctxDone = FALSE
    /\ spawned = 0
    /\ received = 0
    /\ results = <<>>
    /\ ips = <<>>
    /\ ip = <<>>
    /\ err = nil
    /\ records = <<>>
    /\ calls = <<>>
    /\ updates = <<>>
    /\ log = <<>>
    /\ tpc = [i \in Tasks |-> "idle"]
    /\ status = [i \in Tasks |-> 0]
    /\ body = [i \in Tasks |-> <<>>]
    /\ res = [i \in Tasks |-> [ip |-> <<>>, err |-> nil]]
    /\ order = <<>>
    /\ requests = [i \in Tasks |-> 0]

\* ------------------------------------------------------------------- main
\* variant: the error of ZoneIDByName is logged and the run goes on
ZoneLookupContinues ==
    /\ pc = "START"
    /\ calls' = Append(calls, "ZoneIDByName")
    /\ pc' = "RESOLVING"
    /\ \E ok \in BOOLEAN :
        log' = IF ok THEN log ELSE Append(log, "Error fetching Zone ID")
    /\ UNCHANGED <<ctxDone, spawned, received, results, ips, ip, err, records,
                   updates, tpc, status, body, res, order, requests>>

\* api.ZoneIDByName and context.WithTimeout (lines 69-81)
ZoneLookup ==
    /\ pc = "START"
    /\ calls' = Append(calls, "ZoneIDByName")
    /\ \E ok \in BOOLEAN :
        IF ok
        THEN /\ pc' = "RESOLVING"
             /\ log' = log
        ELSE /\ pc' = "ZONE_FAILED"
             /\ log' = Append(log, "Error fetching Zone ID")
    /\ UNCHANGED <<ctxDone, spawned, received, results, ips, ip, err, records,
                   updates, tpc, status, body, res, order, requests>>

\* the timer of context.WithTimeout(..., 10*time.Second) fires
Timeout ==
    /\ pc \notin {"START"} \cup Terminal
    /\ ~ctxDone
    /\ ctxDone' = TRUE
    /\ UNCHANGED <<pc, spawned, received, results, ips, ip, err, records,
                   calls, updates, log, tpc, status, body, res, order,
                   requests>>

\* ------------------------------------------------------------ getPublicIP
\* for _, url := range services { go func(service string) {...}(url) }
Spawn ==
    /\ pc = "RESOLVING"
    /\ spawned < Len(services)
    /\ spawned' = spawned + 1
    /\ tpc' = [tpc EXCEPT ![spawned + 1] = "start"]
    /\ UNCHANGED <<pc, ctxDone, received, results, ips, ip, err, records,
                   calls, updates, log, status, body, res, order, requests>>

\* for range services { res := <-results; if res.err == nil {...} }
Receive ==
    /\ pc = "RESOLVING"
    /\ spawned = Len(services)
    /\ ~AllReceived
    /\ results # <<>>
    /\ results' = Tail(results)
    /\ received' = received + 1
    /\ ips' = Collect(ips, Head(results))
    /\ UNCHANGED <<pc, ctxDone, spawned, ip, err, records, calls, updates,
                   log, tpc, status, body, res, order, requests>>

\* lines 165-173 of getPublicIP, then lines 84-89 of main
Return ==
    /\ pc = "RESOLVING"
    /\ spawned = Len(services)
    /\ AllReceived
    /\ ip' = ResolveResult(ips).ip
    /\ err' = ResolveResult(ips).err
    /\ IF ResolveResult(ips).err # nil
       THEN /\ pc' = "RESOLUTION_FAILED"
            /\ log' = Append(log, "Error fetching public IP")
       ELSE /\ pc' = "RESOLVED"
            /\ log' = (IF Mismatch(ips)
                       THEN Append(log, "Warning: IP mismatch")
                       ELSE log) \o <<"Your IP address is">>
    /\ UNCHANGED <<ctxDone, spawned, received, results, ips, records, calls,
                   updates, tpc, status, body, res, order, requests>>

\* ---------------------------------------------------------------- fetchIP
\* http.NewRequestWithContext and the call of http.DefaultClient.Do
DoRequest(i) ==
    /\ Running
    /\ tpc[i] = "start"
    /\ tpc' = [tpc EXCEPT ![i] = "do"]
    /\ requests' = [requests EXCEPT ![i] = @ + 1]
    /\ UNCHANGED <<pc, ctxDone, spawned, received, results, ips, ip, err,
                   records, calls, updates, log, status, body, res, order>>

\* Do returns a response, of any status
DoOk(i) ==
    /\ Running
    /\ tpc[i] = "do"
    /\ ~RequestCtxDone
    /\ \E s \in Statuses : status' = [status EXCEPT ![i] = s]
    /\ tpc' = [tpc EXCEPT ![i] = "read"]
    /\ UNCHANGED <<pc, ctxDone, spawned, received, results, ips, ip, err,
                   records, calls, updates, log, body, res, order, requests>>

\* Do returns an error: connection error, or the context is done
DoErr(i) ==
    /\ Running
    /\ tpc[i] = "do"
    /\ res' = [res EXCEPT ![i] =
                  Failure(IF RequestCtxDone THEN ErrDeadline ELSE ErrDo)]
    /\ tpc' = [tpc EXCEPT ![i] = "send"]
    /\ UNCHANGED <<pc, ctxDone, spawned, received, results, ips, ip, err,
                   records, calls, updates, log, status, body, order,
                   requests>>

\* io.ReadAll returns the body; trim and check it (lines 189-199)
ReadOk(i) ==
    /\ Running
    /\ tpc[i] = "read"
    /\ ~RequestCtxDone
    /\ \E b \in Bodies :
        /\ body' = [body EXCEPT ![i] = b]
        /\ res' = [res EXCEPT ![i] = FetchResult(b)]
    /\ tpc' = [tpc EXCEPT ![i] = "send"]
    /\ UNCHANGED <<pc, ctxDone, spawned, received, results, ips, ip, err,
                   records, calls, updates, log, status, order, requests>>

\* io.ReadAll returns an error
ReadErr(i) ==
    /\ Running
    /\ tpc[i] = "read"
    /\ res' = [res EXCEPT ![i] =
                  Failure(IF RequestCtxDone THEN ErrDeadline ELSE ErrReadAll)]
    /\ tpc' = [tpc EXCEPT ![i] = "send"]
    /\ UNCHANGED <<pc, ctxDone, spawned, received, results, ips, ip, err,
                   records, calls, updates, log, status, body, order,
                   requests>>

\* results <- result{ip, err}
Send(i) ==
    /\ Running
    /\ tpc[i] = "send"
    /\ Len(results) < ResultsCap
    /\ results' = Append(results, res[i])
    /\ order' = Append(order, i)
    /\ tpc' = [tpc EXCEPT ![i] = "done"]
    /\ UNCHANGED <<pc, ctxDone, spawned, received, ips, ip, err, records,
                   calls, updates, log, status, body, res, requests>>

\* -------------------------------------------------------------- reconcile
\* the call of api.ListDNSRecords (line 92)
ListCall ==
    /\ pc = "RESOLVED"
    /\ pc' = "COMPARING"
    /\ calls' = Append(calls, "ListDNSRecords")
    /\ UNCHANGED <<ctxDone, spawned, received, results, ips, ip, err, records,
                   updates, log, tpc, status, body, res, order, requests>>

\* ListDNSRecords returns an error (lines 96-98)
ListErr ==
    /\ pc = "COMPARING"
    /\ pc' = "LIST_FAILED"
    /\ log' = Append(log, "Error fetching DNS records")
    /\ UNCHANGED <<ctxDone, spawned, received, results, ips, ip, err, records,
                   calls, updates, tpc, status, body, res, order, requests>>

\* ListDNSRecords returns records; lines 101-120 and 126-128 of main
ListOk ==
    /\ pc = "COMPARING"
    /\ ~ProviderCtxDone
    /\ \E recs \in RecordLists :
        /\ records' = recs
        /\ IF Len(recs) = 0
           THEN /\ pc' = NoRecordExit
                /\ log' = log \o <<"Total records found", "No A records found">>
                /\ updates' = updates
                /\ calls' = calls
           ELSE IF UpToDate(recs[1], ip)
           THEN /\ pc' = "UP_TO_DATE"
                /\ log' = log \o UpToDateMessages
                /\ updates' = updates
                /\ calls' = calls
           ELSE /\ pc' = "UPDATING"
                /\ log' = Append(log, "Total records found")
                /\ updates' = Append(updates, UpdateParams(recs[1], ip))
                /\ calls' = Append(calls, "UpdateDNSRecord")
    /\ UNCHANGED <<ctxDone, spawned, received, results, ips, ip, err, tpc,
                   status, body, res, order, requests>>

\* variant: a failed update is retried from the record list
UpdateErrRetry ==
    /\ pc = "UPDATING"
    /\ pc' = "RESOLVED"
    /\ log' = Append(log, "Error updating DNS record")
    /\ UNCHANGED <<ctxDone, spawned, received, results, ips, ip, err, records,
                   calls, updates, tpc, status, body, res, order, requests>>

\* UpdateDNSRecord returns an error (lines 121-123)
UpdateErr ==
    /\ pc = "UPDATING"
    /\ pc' = "UPDATE_FAILED"
    /\ log' = Append(log, "Error updating DNS record")
    /\ UNCHANGED <<ctxDone, spawned, received, results, ips, ip, err, records,
                   calls, updates, tpc, status, body, res, order, requests>>

\* UpdateDNSRecord returns without error (lines 125, 130-134)
UpdateOk ==
    /\ pc = "UPDATING"
    /\ ~ProviderCtxDone
    /\ pc' = "UPDATED"
    /\ log' = log \o <<"Successfully updated DNS record",
                       "Successfully updated DNS record">>
    /\ UNCHANGED <<ctxDone, spawned, received, results, ips, ip, err, records,
                   calls, updates, tpc, status, body, res, order, requests>>

\* ------------------------------------------------------------------- Next
Next ==
    \/ ZoneLookup
    \/ Timeout
    \/ Spawn
    \/ Receive
    \/ Return
    \/ \E i \in Tasks : DoRequest(i)
    \/ \E i \in Tasks : DoOk(i)
    \/ \E i \in Tasks : DoErr(i)
    \/ \E i \in Tasks : ReadOk(i)
    \/ \E i \in Tasks : ReadErr(i)
    \/ \E i \in Tasks : Send(i)
    \/ ListCall
    \/ ListErr
    \/ ListOk
    \/ UpdateErr
    \/ UpdateOk

Spec == Init /\ [][Next]_vars

\* Scheduling: main and every goroutine keep running while they can take a
\* step, and the timer of ctx fires. A call made with ctx returns once ctx
\* is done; that an endpoint or the provider ever answers is not assumed.
\* ZoneIDByName is called without ctx (line 69): that it returns is assumed.
Fairness ==
    /\ WF_vars(ZoneLookup)
    /\ WF_vars(Timeout)
    /\ WF_vars(Spawn)
    /\ WF_vars(Receive)
    /\ WF_vars(Return)
    /\ WF_vars(ListCall)
    /\ WF_vars(ProviderCtxDone /\ ListErr)
    /\ WF_vars(ProviderCtxDone /\ UpdateErr)
    /\ \A i \in Tasks :
          /\ WF_vars(DoRequest(i))
          /\ WF_vars(RequestCtxDone /\ DoErr(i))
          /\ WF_vars(RequestCtxDone /\ ReadErr(i))
          /\ WF_vars(Send(i))

FairSpec == Spec /\ Fairness

TypeOK ==
    /\ pc \in {"START", "RESOLVING", "RESOLVED", "COMPARING", "UPDATING"}
              \cup Terminal
    /\ ctxDone \in BOOLEAN
    /\ spawned \in 0..Len(services)
    /\ received \in 0..Len(services)
    /\ Len(results) <= ResultsCap
    /\ Len(ips) <= Len(services)
    /\ err \in {nil, ErrAllFailed}
    /\ \A i \in Tasks :
        tpc[i] \in {"idle", "start", "do", "read", "send", "done"}

\* ------------------------------------------------- vocabulary of the claims
\* getPublicIP has returned to main
Returned == pc \notin {"START", "ZONE_FAILED", "RESOLVING"}

\* fetchIP has returned in goroutine i
Fetched(i) == tpc[i] \in {"send", "done"}
Succeeded(i) == Fetched(i) /\ res[i].err = nil
Failed(i) == Fetched(i) /\ res[i].err # nil

\* io.ReadAll gave goroutine i its whole body
BodyRead(i) ==
    Fetched(i) /\ res[i].err \notin {ErrDo, ErrReadAll, ErrDeadline}

Is2xx(s) == s >= 200 /\ s < 300
AllWhitespace(b) == \A k \in 1..Len(b) : b[k] \in Whitespace
Range(f) == {f[k] : k \in DOMAIN f}
Warned == "Warning: IP mismatch" \in Range(log)
UpdateCallCount == Cardinality({k \in DOMAIN calls : calls[k] = "UpdateDNSRecord"})

\* C1: with endpoints [A, B] both succeeding with different addresses,
\* getPublicIP returns A's address, whichever result reached the aggregator
\* first.
C1_OrderPreservingTieBreak ==
    (Returned /\ Succeeded(1) /\ Succeeded(2) /\ res[1].ip # res[2].ip)
        => (err = nil /\ ip = res[1].ip)

\* C2: getPublicIP never returns, with an address or with a failure, before
\* every endpoint goroutine has delivered its outcome to the aggregator.
C2_FanOutCompleteness ==
    Returned =>
        /\ received = Len(services)
        /\ \A i \in Tasks : tpc[i] = "done" /\ i \in Range(order)

C2_Witness ==
    /\ pc = "RESOLVED"
    /\ order = <<2, 1>>
    /\ Succeeded(1)
    /\ Failed(2)

\* C3: if every endpoint fails, getPublicIP returns a failure and the run
\* ends in RESOLUTION_FAILED with no record list call and no update call.
C3_AllFail ==
    (Returned /\ \A i \in Tasks : Failed(i)) =>
        /\ err # nil
        /\ pc = "RESOLUTION_FAILED"
        /\ calls = <<"ZoneIDByName">>
        /\ updates = <<>>

C3_Witness ==
    /\ pc = "RESOLUTION_FAILED"
    /\ res[1].err = ErrDo
    /\ res[2].err = ErrReadAll

\* C4: if exactly one endpoint succeeds, whichever one and in whichever
\* arrival order, getPublicIP returns that endpoint's address and no failure.
C4_SingleSuccess ==
    \A i \in Tasks :
        (Returned /\ Succeeded(i) /\ \A j \in Tasks \ {i} : Failed(j))
            => (err = nil /\ ip = res[i].ip)

C4_Witness ==
    /\ Returned
    /\ Failed(1)
    /\ Succeeded(2)
    /\ res[2].ip = <<"1", "1">>
    /\ order = <<2, 1>>
    /\ ip = <<"1", "1">>

\* C5: an address returned by getPublicIP is the address of an endpoint
\* outcome that succeeded in this invocation, as fetchIP returned it; it is
\* never the empty string and never comes from a failed endpoint.
C5_NoFabrication ==
    (Returned /\ err = nil) =>
        /\ ip # <<>>
        /\ \E i \in Tasks : Succeeded(i) /\ ip = res[i].ip

C5_Witness ==
    /\ Returned
    /\ err = nil
    /\ Failed(1)
    /\ order = <<1, 2>>
    /\ body[2] = <<"1", "\n">>
    /\ ip = <<"1">>

\* C6: when the resolved address equals the content of the first listed A
\* record, the run makes no update call and ends in UP_TO_DATE.
C6_IdempotentNoOp ==
    (Len(records) > 0 /\ records[1].Content = ip) =>
        /\ pc = "UP_TO_DATE"
        /\ updates = <<>>
        /\ UpdateCallCount = 0

C6_Witness ==
    /\ pc = "UP_TO_DATE"
    /\ Len(records) = 2
    /\ records[1].Content = ip
    /\ records[2].Content # ip

\* C7: when the resolved address differs from the content of the first
\* listed record, the run makes exactly one update call, whose content is the
\* resolved address and whose type, name, TTL and proxy flag are those of
\* that record.
C7_UpdatePath ==
    (Len(records) > 0 /\ records[1].Content # ip) =>
        /\ pc \in {"UPDATING", "UPDATED", "UPDATE_FAILED"}
        /\ UpdateCallCount = 1
        /\ Len(updates) = 1
        /\ updates[1].Content = ip
        /\ updates[1].Type = records[1].Type
        /\ updates[1].Name = records[1].Name
        /\ updates[1].TTL = records[1].TTL
        /\ updates[1].Proxied = records[1].Proxied

C7_Witness ==
    /\ pc = "UPDATED"
    /\ records[1].Content = <<"1">>
    /\ ip = <<"1", "1">>
    /\ records[1].TTL = 300
    /\ ~records[1].Proxied
    /\ Len(updates) = 1

\* C8: the mismatch warning is written exactly when two endpoints succeeded
\* with different addresses, and then getPublicIP still returns an address;
\* two endpoints that succeeded with the same address give that address and
\* no warning.
C8_DisagreementIsWarning ==
    /\ ~Returned => ~Warned
    /\ Returned =>
        /\ Warned <=> (Succeeded(1) /\ Succeeded(2) /\ res[1].ip # res[2].ip)
        /\ Warned => (err = nil /\ pc # "RESOLUTION_FAILED" /\ ip \in {res[1].ip, res[2].ip})
        /\ (Succeeded(1) /\ Succeeded(2) /\ res[1].ip = res[2].ip)
               => (err = nil /\ ip = res[1].ip)

C8_Witness ==
    /\ Warned
    /\ pc = "UPDATED"
    /\ res[1].ip # res[2].ip

\* C9: an endpoint whose response has a non-2xx status is a failed outcome of
\* fetchIP, so its body never becomes the resolved address.
C9_Non2xxIsFailure ==
    \A i \in Tasks :
        (Fetched(i) /\ status[i] # 0 /\ ~Is2xx(status[i])) => res[i].err # nil

\* C10: an endpoint whose body is empty after trimming surrounding whitespace
\* is a failed outcome of fetchIP, and the aggregator treats it as it treats
\* any failure: the other endpoint's address is returned if that endpoint
\* succeeded, otherwise resolution fails.
C10_EmptyBodyIsFailure ==
    \A i \in Tasks :
        (BodyRead(i) /\ AllWhitespace(body[i])) =>
            /\ res[i].err # nil
            /\ res[i].ip = <<>>
            /\ Returned =>
                \A j \in Tasks \ {i} :
                    IF Succeeded(j)
                    THEN err = nil /\ ip = res[j].ip
                    ELSE err # nil /\ pc = "RESOLUTION_FAILED"

C10_Witness ==
    /\ Returned
    /\ BodyRead(1)
    /\ body[1] = <<" ", "\n">>
    /\ res[1].err = ErrEmpty
    /\ Succeeded(2)
    /\ ip = res[2].ip

\* an IPv4 address in dotted-decimal form: four decimal fields of value at
\* most 255, without leading zeros, separated by "."
DecDigits == <<"0", "1", "2", "3", "4", "5", "6", "7", "8", "9">>
DigitValue(c) == (CHOOSE k \in DOMAIN DecDigits : DecDigits[k] = c) - 1

RECURSIVE FieldValue(_)
FieldValue(f) ==
    IF f = <<>> THEN 0
    ELSE 10 * FieldValue(SubSeq(f, 1, Len(f) - 1)) + DigitValue(f[Len(f)])

IsField(f) ==
    /\ Len(f) \in 1..3
    /\ \A k \in DOMAIN f : f[k] \in Range(DecDigits)
    /\ Len(f) > 1 => f[1] # "0"
    /\ FieldValue(f) <= 255

RECURSIVE SplitDots(_)
SplitDots(s) ==
    IF \E k \in DOMAIN s : s[k] = "."
    THEN LET k == CHOOSE k \in DOMAIN s :
                      s[k] = "." /\ \A m \in 1..(k - 1) : s[m] # "."
         IN <<SubSeq(s, 1, k - 1)>> \o SplitDots(SubSeq(s, k + 1, Len(s)))
    ELSE <<s>>

IsIPv4(s) ==
    /\ Len(SplitDots(s)) = 4
    /\ \A k \in 1..4 : IsField(SplitDots(s)[k])

\* C11: an endpoint whose trimmed body is non-empty but is not a parseable
\* IPv4 address is a failed outcome of fetchIP, so a successful resolution
\* result is always a valid IPv4 address.
C11_InvalidBodyIsFailure ==
    \A i \in Tasks :
        (BodyRead(i) /\ TrimSpace(body[i]) # <<>> /\ ~IsIPv4(TrimSpace(body[i])))
            => res[i].err # nil

\* C12: when the record list call returns no A record, the run ends in
\* NO_RECORD and makes no update or create call.
C12_NoRecordIsFatal ==
    ("Total records found" \in Range(log) /\ Len(records) = 0) =>
        /\ pc = "NO_RECORD"
        /\ "No A records found" \in Range(log)
        /\ calls = <<"ZoneIDByName", "ListDNSRecords">>
        /\ updates = <<>>

C12_Witness ==
    /\ pc = "NO_RECORD"
    /\ records = <<>>
    /\ ip = <<"1">>
    /\ calls = <<"ZoneIDByName", "ListDNSRecords">>

\* C13: an endpoint request still in flight when the deadline expires is a
\* failed outcome for the aggregator, and no response obtained after the
\* deadline contributes an address to the result.
C13_Deadline ==
    /\ [][\A i \in Tasks :
            (ctxDone /\ tpc[i] \in {"idle", "start", "do", "read"}
                     /\ tpc'[i] = "send")
                => res'[i] = Failure(ErrDeadline)]_vars
    /\ [](\A i \in Tasks :
            (Returned /\ res[i].err = ErrDeadline) =>
                /\ err = nil => ip # res[i].ip
                /\ \A j \in Tasks \ {i} :
                      IF Succeeded(j) THEN err = nil /\ ip = res[j].ip
                      ELSE err # nil)

C13_Witness ==
    /\ Returned
    /\ ctxDone
    /\ status[1] = 200
    /\ res[1].err = ErrDeadline
    /\ Succeeded(2)
    /\ err = nil
    /\ ip = res[2].ip

CallCount(op) == Cardinality({k \in DOMAIN calls : calls[k] = op})

\* C14: within one run each endpoint is requested at most once and each
\* provider operation is called at most once; after the update call has
\* returned, with or without error, no further provider call has been made.
C14_NoRetry ==
    /\ \A i \in Tasks : requests[i] <= 1
    /\ \A op \in {"ZoneIDByName", "ListDNSRecords", "UpdateDNSRecord"} :
          CallCount(op) <= 1
    /\ Len(updates) <= 1
    /\ pc \in {"UPDATED", "UPDATE_FAILED"} =>
          calls = <<"ZoneIDByName", "ListDNSRecords", "UpdateDNSRecord">>

C14_Witness ==
    /\ pc = "UPDATE_FAILED"
    /\ res[1].err = ErrDo
    /\ requests = <<1, 1>>
    /\ calls = <<"ZoneIDByName", "ListDNSRecords", "UpdateDNSRecord">>

\* C15: a failure of the zone lookup, of the record list or of the record
\* update ends the run in a failure state, and no later step (endpoint
\* request, list call, update call) has been performed.
C15_ProviderFailureIsFatal ==
    /\ []("Error fetching Zone ID" \in Range(log) =>
            /\ pc = "ZONE_FAILED"
            /\ calls = <<"ZoneIDByName">>
            /\ spawned = 0
            /\ \A i \in Tasks : requests[i] = 0 /\ tpc[i] = "idle")
    /\ []("Error fetching DNS records" \in Range(log) =>
            /\ pc = "LIST_FAILED"
            /\ calls = <<"ZoneIDByName", "ListDNSRecords">>
            /\ updates = <<>>)
    /\ []("Error updating DNS record" \in Range(log) =>
            /\ pc = "UPDATE_FAILED"
            /\ calls = <<"ZoneIDByName", "ListDNSRecords", "UpdateDNSRecord">>
            /\ Len(updates) = 1)
    /\ [][(pc \in {"ZONE_FAILED", "LIST_FAILED", "UPDATE_FAILED"})
              => UNCHANGED vars]_vars

C15_Witness ==
    /\ pc = "LIST_FAILED"
    /\ ~ctxDone
    /\ ip = <<"1">>
    /\ log[Len(log)] = "Error fetching DNS records"

\* C16, as stated: under fairness the resolving state always eventually ends
\* in resolved or resolution-failed, and every run eventually reaches one of
\* the terminal states resolution failed, up-to-date, updated, update failed.
C16_TerminalStatesAsStated ==
    /\ (pc = "RESOLVING") ~> (pc \in {"RESOLVED", "RESOLUTION_FAILED"})
    /\ <>(pc \in {"RESOLUTION_FAILED", "UP_TO_DATE", "UPDATED",
                  "UPDATE_FAILED"})

\* C16, amended: under fairness the resolving state always eventually ends
\* in resolved or resolution-failed, and every run eventually reaches one of
\* the terminal states zone lookup failed, resolution failed, record list
\* failed, no record, up-to-date, updated, update failed.
C16_TransientStatesAreLeft ==
    /\ (pc = "RESOLVING") ~> (pc \in {"RESOLVED", "RESOLUTION_FAILED"})
    /\ <>(pc \in Terminal)

\* both endpoints never respond: the deadline ends the resolution
C16_Witness ==
    /\ pc = "RESOLUTION_FAILED"
    /\ ctxDone
    /\ status = [i \in Tasks |-> 0]
    /\ \A i \in Tasks : requests[i] = 1 /\ res[i].err = ErrDeadline

\* C17: the results channel never holds more entries than there are
\* endpoints, no endpoint goroutine ever blocks on its send, each goroutine
\* sends exactly one outcome, and when getPublicIP returns the aggregator has
\* received one outcome per endpoint, the channel is empty and every
\* goroutine has finished.
C17_JoinWithoutBlocking ==
    /\ Len(results) <= Len(services)
    /\ \A i \in Tasks : (Running /\ tpc[i] = "send") => ENABLED Send(i)
    /\ \A i \in Tasks :
          Cardinality({k \in DOMAIN order : order[k] = i})
              = (IF tpc[i] = "done" THEN 1 ELSE 0)
    /\ Len(order) = received + Len(results)
    /\ Returned =>
          /\ results = <<>>
          /\ received = Len(services)
          /\ Range(order) = Tasks
          /\ \A i \in Tasks : tpc[i] = "done"

\* both outcomes are in the channel before the aggregator receives any
C17_Witness ==
    /\ Len(results) = Len(services)
    /\ received = 0
    /\ order = <<2, 1>>
    /\ \A i \in Tasks : tpc[i] = "done"

C19_NoOpLogsUpdated ==
    pc = "UP_TO_DATE" => "Successfully updated DNS record" \in Range(log)

\* C19, amended: on the no-op path the run writes no "Successfully updated"
\* message; that message is written on the update path only, so the two
\* paths write distinct messages.
C19_NoOpAndUpdatedMessagesDistinct ==
    /\ pc = "UP_TO_DATE" =>
          /\ "Successfully updated DNS record" \notin Range(log)
          /\ log[Len(log)] = "DNS record already up-to-date"
    /\ pc = "UPDATED" =>
          /\ "DNS record already up-to-date" \notin Range(log)
          /\ log[Len(log)] = "Successfully updated DNS record"
    /\ ~ /\ "DNS record already up-to-date" \in Range(log)
         /\ "Successfully updated DNS record" \in Range(log)

C19_Witness ==
    /\ pc = "UP_TO_DATE"
    /\ records[1].Content = ip
    /\ SubSeq(log, Len(log) - 2, Len(log)) =
          <<"Your IP address is", "Total records found",
            "DNS record already up-to-date">>

====
